---- MODULE Spec2Model ----
(***************************************************************************)
(* Prior-authorization contract (contracts/prior-authorization).           *)
(* The persistent store is modelled key family by key family (DataKey),    *)
(* every entry point of PriorAuthorizationContract is one atomic action,   *)
(* and `last` records the most recent invocation and what it returned.     *)
(*                                                                         *)
(* Left out of the records: fields that are written once from the call's   *)
(* inputs and never read or rewritten by any entry point (policy_id,       *)
(* authorization_type, requested_service, service/diagnosis codes, hashes, *)
(* urgency, submitted_at, attached_at, requested_at, recorded_at,          *)
(* extension_reason, review_notes).                                        *)
(* require_auth() is the host's identity check: the caller named in an     *)
(* action is the address that authorised the invocation.                   *)
(***************************************************************************)
EXTENDS Integers, Sequences, FiniteSets, TLC

\* ---------------------------------------------------------------- bounds
\* Number of submissions explored.
MaxRequests == 1
\* The ledger timestamp runs over 0..MaxTime.
MaxTime == 1
\* Stand-in for 2^32: u32 unit counts live in 0..U32Modulus-1.
U32Modulus == 3
\* Largest ceiling a reviewer passes in the explored calls.
MaxCeiling == 1
\* Caps on the append-only lists.
MaxDocs == 1
MaxUsage == 2
AppealMaxUsage == 1
\* Number of submissions explored where several requests live side by side.
MaxIdRequests == 2
\* Cap on the document list where documents are explored in full.
DocsMaxDocs == 2

\* ------------------------------------------------------------- constants
MAX_APPEAL_LEVEL == 3

\* ---------------------------------------------------------------- inputs
Addresses == {"addrA", "addrB"}
Providers == {"addrA"}
Patients == {"patient1"}
RequestIds == 1..MaxRequests
DocHashes == {"doc1"}

None == <<>>
Some(v) == <<v>>
IsSome(o) == o /= None
Unwrap(o) == o[1]

\* Symbols a caller may pass as the decision of a review.
DecisionTags == {"approved", "denied", "more_info_needed", "maybe"}
CeilingChoices == {None, Some(MaxCeiling)}
ValidFromChoices == {None, Some(0)}
ValidUntilChoices == {None, Some(0)}
Reviewers == {"reviewerA"}
Admins == {"adminA"}
UnitChoices == 0..(U32Modulus - 1)
LevelChoices == 0..(MAX_APPEAL_LEVEL + 1)
BudgetLevelChoices == {1, MAX_APPEAL_LEVEL + 1}
AppealUnitChoices == {1}
ExtensionUnitChoices == {1}
RequestedDateChoices == {1}
RescheduleDateChoices == {1, 2}
PreferredTimeChoices == {<<"Mon 9am">>}
ScheduledTimeChoices == {1}
Directors == {"directorA"}
IdRequestIds == 1..MaxIdRequests
IdPatients == {"patient1", "patient2"}
IdLevelChoices == {1, 2}
RecordOfficers == {"adminA", "addrA"}
RecordTimeChoices == {1, 2}
RecordDirectors == {"directorA", "directorB"}
RecordExtensionChoices == {1, 2}
RecordLevelChoices == {1}
ServiceDateChoices == {0}
UsageServiceDates == {0, 1}
UsageReviewers == {"reviewerA", "addrA"}
DocsHashes == {"doc1", "doc2"}

\* AuthStatus
AuthStatus ==
  {"Submitted", "UnderReview", "MoreInfoNeeded", "PeerToPeerScheduled",
   "Approved", "Denied", "Appealed", "Expired"}

\* Error
Error ==
  {"Unauthorized", "AuthRequestNotFound", "AppealNotFound", "InvalidDecision",
   "InvalidStatusTransition", "AlreadyReviewed", "NotDenied",
   "MaxAppealLevelReached", "NotApproved", "AuthorizationExpired",
   "ExceedsApprovedUnits", "PeerToPeerAlreadyScheduled"}

VARIABLES
  AuthCounter,     \* DataKey::AuthCounter (0 when the key is absent)
  AppealCounter,   \* DataKey::AppealCounter (0 when the key is absent)
  AuthRequest,     \* DataKey::AuthRequest(id)   -> AuthorizationRequest
  Documents,       \* DataKey::Documents(id)     -> Vec<SupportingDocument>
  PeerToPeer,      \* DataKey::PeerToPeer(id)    -> PeerToPeerRequest
  Appeals,         \* DataKey::Appeals(id)       -> Vec<Appeal>
  Appeal,          \* DataKey::Appeal(appeal_id) -> Appeal
  Extension,       \* DataKey::Extension(id)     -> ExtensionRequest
  UsageRecords,    \* DataKey::UsageRecords(id)  -> Vec<UsageRecord>
  ProviderAuths,   \* DataKey::ProviderAuths(a)  -> Vec<u64>
  PatientAuths,    \* DataKey::PatientAuths(a)   -> Vec<u64>
  timestamp,       \* env.ledger().timestamp()
  last             \* the most recent invocation and its outcome

store ==
  <<AuthCounter, AppealCounter, AuthRequest, Documents, PeerToPeer, Appeals,
    Appeal, Extension, UsageRecords, ProviderAuths, PatientAuths>>

vars == <<store, timestamp, last>>

\* persistent().set(key, value)
MapSet(m, k, v) == [x \in (DOMAIN m) \cup {k} |-> IF x = k THEN v ELSE m[x]]

\* persistent().get(key).unwrap_or(Vec::new(env))
VecAt(m, k) == IF k \in DOMAIN m THEN m[k] ELSE <<>>

EmptyMap == [x \in {} |-> x]

\* What an invocation leaves for its caller: the entry point, the request it named,
\* the Error it returned ("Ok" if none, "Panic" for a trap), the value returned on
\* success (0 for unit) and the events it published.
Call(op, id, result, ret, events) ==
  [op |-> op, id |-> id, result |-> result, ret |-> ret, events |-> events]

Init ==
  /\ AuthCounter = 0
  /\ AppealCounter = 0
  /\ AuthRequest = EmptyMap
  /\ Documents = EmptyMap
  /\ PeerToPeer = EmptyMap
  /\ Appeals = EmptyMap
  /\ Appeal = EmptyMap
  /\ Extension = EmptyMap
  /\ UsageRecords = EmptyMap
  /\ ProviderAuths = EmptyMap
  /\ PatientAuths = EmptyMap
  /\ timestamp = 0
  /\ last = Call("init", 0, "Ok", 0, <<>>)

\* The ledger closes and the timestamp advances.
Tick ==
  /\ timestamp < MaxTime
  /\ timestamp' = timestamp + 1
  /\ last' = Call("tick", 0, "Ok", 0, <<>>)
  /\ UNCHANGED store

\* ------------------------------------------------------------ storage.rs
\* Mutant: the counter is returned before it is incremented.
next_auth_id_Stale == AuthCounter

next_auth_id == AuthCounter + 1

\* Mutant: the counter is returned before it is incremented.
next_appeal_id_Stale == AppealCounter

next_appeal_id == AppealCounter + 1

add_provider_auth(provider_id, auth_id) ==
  MapSet(ProviderAuths, provider_id, Append(VecAt(ProviderAuths, provider_id), auth_id))

\* Mutant: the patient's list is replaced by the new id alone.
add_patient_auth_Overwrites(patient_id, auth_id) ==
  MapSet(PatientAuths, patient_id, <<auth_id>>)

add_patient_auth(patient_id, auth_id) ==
  MapSet(PatientAuths, patient_id, Append(VecAt(PatientAuths, patient_id), auth_id))

\* Mutant: the new document is put in front of the list.
save_document_Prepends(auth_request_id, doc) ==
  MapSet(Documents, auth_request_id, <<doc>> \o VecAt(Documents, auth_request_id))

save_document(auth_request_id, doc) ==
  MapSet(Documents, auth_request_id, Append(VecAt(Documents, auth_request_id), doc))

save_usage_record(record) ==
  MapSet(UsageRecords, record.auth_request_id,
         Append(VecAt(UsageRecords, record.auth_request_id), record))

load_appeals_for_auth(auth_request_id) == VecAt(Appeals, auth_request_id)

\* ---------------------------------------------------------------- lib.rs
NewRequest(auth_request_id, provider_id, patient_id) ==
  [auth_request_id |-> auth_request_id,
   provider_id |-> provider_id,
   patient_id |-> patient_id,
   status |-> "Submitted",
   decision |-> None,
   approved_units |-> None,
   units_used |-> 0,
   valid_from |-> None,
   valid_until |-> None,
   decision_date |-> None,
   expedited |-> FALSE]

submit_prior_authorization(provider_id, patient_id) ==
  /\ LET auth_request_id == next_auth_id IN
     /\ AuthCounter' = auth_request_id
     /\ AuthRequest' = MapSet(AuthRequest, auth_request_id,
                              NewRequest(auth_request_id, provider_id, patient_id))
     /\ ProviderAuths' = add_provider_auth(provider_id, auth_request_id)
     /\ PatientAuths' = add_patient_auth(patient_id, auth_request_id)
     /\ last' = Call("submit", auth_request_id, "Ok", auth_request_id,
                     <<"auth_submitted">>)
  /\ UNCHANGED <<AppealCounter, Documents, PeerToPeer, Appeals, Appeal, Extension,
                 UsageRecords, timestamp>>

\* Mutant: the caller is not compared with the request's provider.
attach_result_SkipsOwnerCheck(auth_request_id, provider_id) ==
  IF auth_request_id \notin DOMAIN AuthRequest THEN "AuthRequestNotFound"
  ELSE "Ok"

\* attach_supporting_documentation: the error it returns, "Ok" if none.
attach_result(auth_request_id, provider_id) ==
  IF auth_request_id \notin DOMAIN AuthRequest THEN "AuthRequestNotFound"
  ELSE IF AuthRequest[auth_request_id].provider_id /= provider_id THEN "Unauthorized"
  ELSE "Ok"

attach_supporting_documentation(auth_request_id, provider_id, document_hash) ==
  LET result == attach_result(auth_request_id, provider_id)
      doc == [auth_request_id |-> auth_request_id, provider_id |-> provider_id,
              document_hash |-> document_hash]
  IN
  /\ Documents' = IF result = "Ok" THEN save_document(auth_request_id, doc) ELSE Documents
  /\ last' = Call("attach_document", auth_request_id, result, 0, IF result = "Ok" THEN <<"document_attached">> ELSE <<>>)
  /\ UNCHANGED <<AuthCounter, AppealCounter, AuthRequest, PeerToPeer, Appeals, Appeal,
                 Extension, UsageRecords, ProviderAuths, PatientAuths, timestamp>>

\* Mutant: the match on req.status also lets Appealed requests through.
Reviewable_AcceptsAppealed(status) ==
  status \in {"Submitted", "UnderReview", "MoreInfoNeeded", "PeerToPeerScheduled",
              "Appealed"}

\* The statuses review_authorization accepts (the match on req.status).
Reviewable(status) ==
  status \in {"Submitted", "UnderReview", "MoreInfoNeeded", "PeerToPeerScheduled"}

\* Mutant: the decision tag is not examined.
review_result_AcceptsAnyTag(auth_request_id, decision) ==
  IF auth_request_id \notin DOMAIN AuthRequest THEN "AuthRequestNotFound"
  ELSE IF ~Reviewable(AuthRequest[auth_request_id].status) THEN "InvalidStatusTransition"
  ELSE "Ok"

review_result(auth_request_id, decision) ==
  IF auth_request_id \notin DOMAIN AuthRequest THEN "AuthRequestNotFound"
  ELSE IF ~Reviewable(AuthRequest[auth_request_id].status) THEN "InvalidStatusTransition"
  ELSE IF decision \notin {"approved", "denied", "more_info_needed"} THEN "InvalidDecision"
  ELSE "Ok"

\* Mutant: an approval starts the usage count afresh.
Reviewed_ResetsUsage(req, decision, approved_units, valid_from, valid_until, now) ==
  IF decision = "approved" THEN
    [req EXCEPT !.status = "Approved",
                !.approved_units = approved_units,
                !.units_used = 0,
                !.valid_from = valid_from,
                !.valid_until = valid_until,
                !.decision_date = Some(now),
                !.decision = Some(decision)]
  ELSE IF decision = "denied" THEN
    [req EXCEPT !.status = "Denied",
                !.decision_date = Some(now),
                !.decision = Some(decision)]
  ELSE
    [req EXCEPT !.status = "MoreInfoNeeded",
                !.decision = Some(decision)]

\* Mutant: a denial is saved without its decision date.
Reviewed_DenialUnstamped(req, decision, approved_units, valid_from, valid_until, now) ==
  IF decision = "approved" THEN
    [req EXCEPT !.status = "Approved",
                !.approved_units = approved_units,
                !.valid_from = valid_from,
                !.valid_until = valid_until,
                !.decision_date = Some(now),
                !.decision = Some(decision)]
  ELSE IF decision = "denied" THEN
    [req EXCEPT !.status = "Denied",
                !.decision = Some(decision)]
  ELSE
    [req EXCEPT !.status = "MoreInfoNeeded",
                !.decision = Some(decision)]

\* The record review_authorization saves for an accepted decision.
Reviewed(req, decision, approved_units, valid_from, valid_until, now) ==
  IF decision = "approved" THEN
    [req EXCEPT !.status = "Approved",
                !.approved_units = approved_units,
                !.valid_from = valid_from,
                !.valid_until = valid_until,
                !.decision_date = Some(now),
                !.decision = Some(decision)]
  ELSE IF decision = "denied" THEN
    [req EXCEPT !.status = "Denied",
                !.decision_date = Some(now),
                !.decision = Some(decision)]
  ELSE
    [req EXCEPT !.status = "MoreInfoNeeded",
                !.decision = Some(decision)]

\* Mutant: only the registered reviewer may adjudicate.
review_authorization_ChecksRole(auth_request_id, reviewer_id, decision, approved_units, valid_from, valid_until) ==
  LET result == IF reviewer_id \notin Reviewers THEN "Unauthorized"
                ELSE review_result(auth_request_id, decision)
  IN
  /\ AuthRequest' =
       IF result = "Ok"
       THEN MapSet(AuthRequest, auth_request_id,
                   Reviewed(AuthRequest[auth_request_id], decision, approved_units,
                            valid_from, valid_until, timestamp))
       ELSE AuthRequest
  /\ last' = Call("review", auth_request_id, result, 0, IF result = "Ok" THEN <<"auth_reviewed">> ELSE <<>>)
  /\ UNCHANGED <<AuthCounter, AppealCounter, Documents, PeerToPeer, Appeals, Appeal,
                 Extension, UsageRecords, ProviderAuths, PatientAuths, timestamp>>

review_authorization(auth_request_id, reviewer_id, decision, approved_units, valid_from, valid_until) ==
  LET result == review_result(auth_request_id, decision) IN
  /\ AuthRequest' =
       IF result = "Ok"
       THEN MapSet(AuthRequest, auth_request_id,
                   Reviewed(AuthRequest[auth_request_id], decision, approved_units,
                            valid_from, valid_until, timestamp))
       ELSE AuthRequest
  /\ last' = Call("review", auth_request_id, result, 0, IF result = "Ok" THEN <<"auth_reviewed">> ELSE <<>>)
  /\ UNCHANGED <<AuthCounter, AppealCounter, Documents, PeerToPeer, Appeals, Appeal,
                 Extension, UsageRecords, ProviderAuths, PatientAuths, timestamp>>

\* Mutant: an existing peer-to-peer record does not stop the call.
request_p2p_result_SkipsDuplicateCheck(auth_request_id, provider_id) ==
  IF auth_request_id \notin DOMAIN AuthRequest THEN "AuthRequestNotFound"
  ELSE IF AuthRequest[auth_request_id].provider_id /= provider_id THEN "Unauthorized"
  ELSE "Ok"

request_p2p_result(auth_request_id, provider_id) ==
  IF auth_request_id \notin DOMAIN AuthRequest THEN "AuthRequestNotFound"
  ELSE IF AuthRequest[auth_request_id].provider_id /= provider_id THEN "Unauthorized"
  ELSE IF auth_request_id \in DOMAIN PeerToPeer THEN "PeerToPeerAlreadyScheduled"
  ELSE "Ok"

\* Mutant: only a Submitted request is promoted.
StatusAfterP2PRequest_OnlySubmitted(status) ==
  IF status \in {"Submitted"} THEN "UnderReview" ELSE status

\* The status request_peer_to_peer leaves the request in.
StatusAfterP2PRequest(status) ==
  IF status \in {"Submitted", "MoreInfoNeeded"} THEN "UnderReview" ELSE status

request_peer_to_peer(auth_request_id, provider_id, requested_date, preferred_times) ==
  LET result == request_p2p_result(auth_request_id, provider_id)
      p2p == [auth_request_id |-> auth_request_id,
              provider_id |-> provider_id,
              requested_date |-> requested_date,
              preferred_times |-> preferred_times,
              scheduled_time |-> None,
              medical_director |-> None]
  IN
  /\ PeerToPeer' = IF result = "Ok" THEN MapSet(PeerToPeer, auth_request_id, p2p)
                   ELSE PeerToPeer
  /\ AuthRequest' =
       IF result = "Ok"
       THEN [AuthRequest EXCEPT ![auth_request_id].status =
               StatusAfterP2PRequest(AuthRequest[auth_request_id].status)]
       ELSE AuthRequest
  /\ last' = Call("request_peer_to_peer", auth_request_id, result, 0, IF result = "Ok" THEN <<"p2p_requested">> ELSE <<>>)
  /\ UNCHANGED <<AuthCounter, AppealCounter, Documents, Appeals, Appeal, Extension,
                 UsageRecords, ProviderAuths, PatientAuths, timestamp>>

schedule_p2p_result(auth_request_id) ==
  IF auth_request_id \notin DOMAIN AuthRequest THEN "AuthRequestNotFound"
  ELSE IF auth_request_id \notin DOMAIN PeerToPeer THEN "AuthRequestNotFound"
  ELSE "Ok"

\* Mutant: a request that left the pending statuses keeps its status.
StatusAfterSchedule_KeepsClosed(status) ==
  IF Reviewable(status) THEN "PeerToPeerScheduled" ELSE status

\* The status schedule_peer_to_peer writes, whatever the status was.
StatusAfterSchedule(status) == "PeerToPeerScheduled"

\* Mutant: the record is rebuilt from the call's inputs instead of loaded and updated.
schedule_peer_to_peer_RebuildsRecord(auth_request_id, insurance_admin, scheduled_time, medical_director) ==
  LET result == schedule_p2p_result(auth_request_id) IN
  /\ PeerToPeer' =
       IF result = "Ok"
       THEN [PeerToPeer EXCEPT ![auth_request_id].scheduled_time = Some(scheduled_time),
                               ![auth_request_id].medical_director = Some(medical_director),
                               ![auth_request_id].requested_date = scheduled_time]
       ELSE PeerToPeer
  /\ AuthRequest' =
       IF result = "Ok"
       THEN [AuthRequest EXCEPT ![auth_request_id].status =
               StatusAfterSchedule(AuthRequest[auth_request_id].status)]
       ELSE AuthRequest
  /\ last' = Call("schedule_peer_to_peer", auth_request_id, result, 0, IF result = "Ok" THEN <<"p2p_scheduled">> ELSE <<>>)
  /\ UNCHANGED <<AuthCounter, AppealCounter, Documents, Appeals, Appeal, Extension,
                 UsageRecords, ProviderAuths, PatientAuths, timestamp>>

schedule_peer_to_peer(auth_request_id, insurance_admin, scheduled_time, medical_director) ==
  LET result == schedule_p2p_result(auth_request_id) IN
  /\ PeerToPeer' =
       IF result = "Ok"
       THEN [PeerToPeer EXCEPT ![auth_request_id].scheduled_time = Some(scheduled_time),
                               ![auth_request_id].medical_director = Some(medical_director)]
       ELSE PeerToPeer
  /\ AuthRequest' =
       IF result = "Ok"
       THEN [AuthRequest EXCEPT ![auth_request_id].status =
               StatusAfterSchedule(AuthRequest[auth_request_id].status)]
       ELSE AuthRequest
  /\ last' = Call("schedule_peer_to_peer", auth_request_id, result, 0, IF result = "Ok" THEN <<"p2p_scheduled">> ELSE <<>>)
  /\ UNCHANGED <<AuthCounter, AppealCounter, Documents, Appeals, Appeal, Extension,
                 UsageRecords, ProviderAuths, PatientAuths, timestamp>>

\* Mutant: a level equal to the last appeal's is let through.
AppealLevelAdmissible_AllowsEqual(existing, appeal_level) ==
  /\ ~(appeal_level > MAX_APPEAL_LEVEL)
  /\ existing /= <<>> => ~(appeal_level < existing[Len(existing)].appeal_level)

\* Mutant: the level is compared with the first appeal instead of the last.
AppealLevelAdmissible_ReadsFirst(existing, appeal_level) ==
  /\ ~(appeal_level > MAX_APPEAL_LEVEL)
  /\ existing /= <<>> => ~(appeal_level <= existing[1].appeal_level)

\* The level checks of appeal_denial against MAX_APPEAL_LEVEL and the last appeal.
AppealLevelAdmissible(existing, appeal_level) ==
  /\ ~(appeal_level > MAX_APPEAL_LEVEL)
  /\ existing /= <<>> => ~(appeal_level <= existing[Len(existing)].appeal_level)

\* Mutant: a request already appealed cannot be appealed again.
Appealable_OnlyDenied(status) == status \in {"Denied"}

\* The statuses appeal_denial accepts.
Appealable(status) == status \in {"Denied", "Appealed"}

appeal_result(auth_request_id, provider_id, appeal_level) ==
  IF auth_request_id \notin DOMAIN AuthRequest THEN "AuthRequestNotFound"
  ELSE IF AuthRequest[auth_request_id].provider_id /= provider_id THEN "Unauthorized"
  ELSE IF ~Appealable(AuthRequest[auth_request_id].status) THEN "NotDenied"
  ELSE IF ~AppealLevelAdmissible(load_appeals_for_auth(auth_request_id), appeal_level)
    THEN "MaxAppealLevelReached"
  ELSE "Ok"

\* save_appeal writes the appeal under its own id and appends it to the request's list.
save_appeal_by_id(appeal) == MapSet(Appeal, appeal.appeal_id, appeal)

\* Mutant: the request's list is replaced by the new appeal alone.
save_appeal_in_list_Overwrites(appeal) ==
  MapSet(Appeals, appeal.auth_request_id, <<appeal>>)

save_appeal_in_list(appeal) ==
  MapSet(Appeals, appeal.auth_request_id,
         Append(VecAt(Appeals, appeal.auth_request_id), appeal))

appeal_denial(auth_request_id, provider_id, appeal_level) ==
  LET result == appeal_result(auth_request_id, provider_id, appeal_level)
      appeal_id == next_appeal_id
      appeal == [appeal_id |-> appeal_id,
                 auth_request_id |-> auth_request_id,
                 provider_id |-> provider_id,
                 appeal_level |-> appeal_level]
  IN
  /\ IF result = "Ok"
     THEN /\ AppealCounter' = appeal_id
          /\ Appeal' = save_appeal_by_id(appeal)
          /\ Appeals' = save_appeal_in_list(appeal)
          /\ AuthRequest' = [AuthRequest EXCEPT ![auth_request_id].status = "Appealed"]
     ELSE UNCHANGED <<AppealCounter, Appeal, Appeals, AuthRequest>>
  /\ last' = Call("appeal", auth_request_id, result,
                  IF result = "Ok" THEN appeal_id ELSE 0,
                  IF result = "Ok" THEN <<"denial_appealed">> ELSE <<>>)
  /\ UNCHANGED <<AuthCounter, Documents, PeerToPeer, Extension, UsageRecords,
                 ProviderAuths, PatientAuths, timestamp>>

\* Mutant: a scheduled peer-to-peer does not stop an expedite.
Expeditable_AllowsScheduled(status) ==
  status \in {"Submitted", "UnderReview", "MoreInfoNeeded", "PeerToPeerScheduled"}

\* The statuses expedite_authorization accepts.
Expeditable(status) == status \in {"Submitted", "UnderReview", "MoreInfoNeeded"}

expedite_result(auth_request_id, provider_id) ==
  IF auth_request_id \notin DOMAIN AuthRequest THEN "AuthRequestNotFound"
  ELSE IF AuthRequest[auth_request_id].provider_id /= provider_id THEN "Unauthorized"
  ELSE IF ~Expeditable(AuthRequest[auth_request_id].status) THEN "InvalidStatusTransition"
  ELSE "Ok"

\* Mutant: the flag is flipped instead of set.
expedite_authorization_Toggles(auth_request_id, provider_id) ==
  LET result == expedite_result(auth_request_id, provider_id) IN
  /\ AuthRequest' =
       IF result = "Ok"
       THEN [AuthRequest EXCEPT ![auth_request_id].expedited =
               ~AuthRequest[auth_request_id].expedited]
       ELSE AuthRequest
  /\ last' = Call("expedite", auth_request_id, result, 0,
                  IF result = "Ok" THEN <<"auth_expedited">> ELSE <<>>)
  /\ UNCHANGED <<AuthCounter, AppealCounter, Documents, PeerToPeer, Appeals, Appeal,
                 Extension, UsageRecords, ProviderAuths, PatientAuths, timestamp>>

expedite_authorization(auth_request_id, provider_id) ==
  LET result == expedite_result(auth_request_id, provider_id) IN
  /\ AuthRequest' =
       IF result = "Ok" THEN [AuthRequest EXCEPT ![auth_request_id].expedited = TRUE]
       ELSE AuthRequest
  /\ last' = Call("expedite", auth_request_id, result, 0,
                  IF result = "Ok" THEN <<"auth_expedited">> ELSE <<>>)
  /\ UNCHANGED <<AuthCounter, AppealCounter, Documents, PeerToPeer, Appeals, Appeal,
                 Extension, UsageRecords, ProviderAuths, PatientAuths, timestamp>>

\* Mutant: an extension of a lapsed authorization is refused.
extend_result_ChecksExpiry(auth_request_id, provider_id) ==
  IF auth_request_id \notin DOMAIN AuthRequest THEN "AuthRequestNotFound"
  ELSE IF AuthRequest[auth_request_id].provider_id /= provider_id THEN "Unauthorized"
  ELSE IF AuthRequest[auth_request_id].status /= "Approved" THEN "NotApproved"
  ELSE IF IsSome(AuthRequest[auth_request_id].valid_until)
          /\ timestamp > Unwrap(AuthRequest[auth_request_id].valid_until)
       THEN "AuthorizationExpired"
  ELSE "Ok"

extend_result(auth_request_id, provider_id) ==
  IF auth_request_id \notin DOMAIN AuthRequest THEN "AuthRequestNotFound"
  ELSE IF AuthRequest[auth_request_id].provider_id /= provider_id THEN "Unauthorized"
  ELSE IF AuthRequest[auth_request_id].status /= "Approved" THEN "NotApproved"
  ELSE "Ok"

\* Mutant: the extension is saved before the checks are made.
extend_authorization_SavesFirst(auth_request_id, provider_id, requested_additional_units) ==
  LET result == extend_result(auth_request_id, provider_id)
      ext == [auth_request_id |-> auth_request_id,
              provider_id |-> provider_id,
              requested_additional_units |-> requested_additional_units]
  IN
  /\ Extension' = MapSet(Extension, auth_request_id, ext)
  /\ last' = Call("extend", auth_request_id, result, 0,
                  IF result = "Ok" THEN <<"extension_requested">> ELSE <<>>)
  /\ UNCHANGED <<AuthCounter, AppealCounter, AuthRequest, Documents, PeerToPeer, Appeals,
                 Appeal, ProviderAuths, PatientAuths, UsageRecords, timestamp>>

\* Mutant: the extension is granted at once, the ceiling raised by the units asked.
extend_authorization_RaisesCeiling(auth_request_id, provider_id, requested_additional_units) ==
  LET result == extend_result(auth_request_id, provider_id)
      ext == [auth_request_id |-> auth_request_id,
              provider_id |-> provider_id,
              requested_additional_units |-> requested_additional_units]
      req == AuthRequest[auth_request_id]
  IN
  /\ Extension' = IF result = "Ok" THEN MapSet(Extension, auth_request_id, ext)
                  ELSE Extension
  /\ AuthRequest' =
       IF result = "Ok" /\ IsSome(req.approved_units)
       THEN [AuthRequest EXCEPT ![auth_request_id].approved_units =
               Some(Unwrap(req.approved_units) + requested_additional_units)]
       ELSE AuthRequest
  /\ last' = Call("extend", auth_request_id, result, 0,
                  IF result = "Ok" THEN <<"extension_requested">> ELSE <<>>)
  /\ UNCHANGED <<AuthCounter, AppealCounter, Documents, PeerToPeer, Appeals,
                 Appeal, ProviderAuths, PatientAuths, UsageRecords, timestamp>>

extend_authorization(auth_request_id, provider_id, requested_additional_units) ==
  LET result == extend_result(auth_request_id, provider_id)
      ext == [auth_request_id |-> auth_request_id,
              provider_id |-> provider_id,
              requested_additional_units |-> requested_additional_units]
  IN
  /\ Extension' = IF result = "Ok" THEN MapSet(Extension, auth_request_id, ext)
                  ELSE Extension
  /\ last' = Call("extend", auth_request_id, result, 0,
                  IF result = "Ok" THEN <<"extension_requested">> ELSE <<>>)
  /\ UNCHANGED <<AuthCounter, AppealCounter, AuthRequest, Documents, PeerToPeer, Appeals,
                 Appeal, ProviderAuths, PatientAuths, UsageRecords, timestamp>>

\* u32 addition: the mathematical sum, and whether it leaves the type's range.
U32Overflows(a, b) == a + b >= U32Modulus

U32WrappingAdd(a, b) == (a + b) % U32Modulus

\* Mutant: the expiry test reads the start of the window.
IsExpired_ReadsValidFrom(req, now) == IsSome(req.valid_from) /\ now > Unwrap(req.valid_from)

\* Mutant: the last instant of the window already counts as lapsed.
IsExpired_NotStrict(req, now) == IsSome(req.valid_until) /\ now >= Unwrap(req.valid_until)

\* The expiry test of track_authorization_usage.
IsExpired(req, now) == IsSome(req.valid_until) /\ now > Unwrap(req.valid_until)

\* The ceiling test of track_authorization_usage, on the sum the build computes.
ExceedsCeiling(req, units_used) ==
  /\ IsSome(req.approved_units)
  /\ U32WrappingAdd(req.units_used, units_used) > Unwrap(req.approved_units)

\* Mutant: the ceiling is tested before the expiry.
track_result_CeilingFirst(auth_request_id, provider_id, units_used, overflow_checks) ==
  IF auth_request_id \notin DOMAIN AuthRequest THEN "AuthRequestNotFound"
  ELSE LET req == AuthRequest[auth_request_id] IN
    IF req.provider_id /= provider_id THEN "Unauthorized"
    ELSE IF req.status /= "Approved" THEN "NotApproved"
    ELSE IF overflow_checks /\ U32Overflows(req.units_used, units_used) THEN "Panic"
    ELSE IF ExceedsCeiling(req, units_used) THEN "ExceedsApprovedUnits"
    ELSE IF IsExpired(req, timestamp) THEN "AuthorizationExpired"
    ELSE "Ok"

\* Mutant: the status of the request is not examined.
track_result_SkipsStatusCheck(auth_request_id, provider_id, units_used, overflow_checks) ==
  IF auth_request_id \notin DOMAIN AuthRequest THEN "AuthRequestNotFound"
  ELSE LET req == AuthRequest[auth_request_id] IN
    IF req.provider_id /= provider_id THEN "Unauthorized"
    ELSE IF IsExpired(req, timestamp) THEN "AuthorizationExpired"
    ELSE IF overflow_checks /\ U32Overflows(req.units_used, units_used) THEN "Panic"
    ELSE IF ExceedsCeiling(req, units_used) THEN "ExceedsApprovedUnits"
    ELSE "Ok"

\* What the call returns: an Error, "Ok", or "Panic" when an addition overflows in a
\* build with overflow checks (the invocation traps before any write).
track_result(auth_request_id, provider_id, units_used, overflow_checks) ==
  IF auth_request_id \notin DOMAIN AuthRequest THEN "AuthRequestNotFound"
  ELSE LET req == AuthRequest[auth_request_id] IN
    IF req.provider_id /= provider_id THEN "Unauthorized"
    ELSE IF req.status /= "Approved" THEN "NotApproved"
    ELSE IF IsExpired(req, timestamp) THEN "AuthorizationExpired"
    ELSE IF overflow_checks /\ U32Overflows(req.units_used, units_used) THEN "Panic"
    ELSE IF ExceedsCeiling(req, units_used) THEN "ExceedsApprovedUnits"
    ELSE "Ok"

track_authorization_usage(auth_request_id, provider_id, units_used, service_date, overflow_checks) ==
  LET result == track_result(auth_request_id, provider_id, units_used, overflow_checks)
      record == [auth_request_id |-> auth_request_id,
                 provider_id |-> provider_id,
                 units_used |-> units_used,
                 service_date |-> service_date]
  IN
  /\ AuthRequest' =
       IF result = "AuthorizationExpired"
       THEN [AuthRequest EXCEPT ![auth_request_id].status = "Expired"]
       ELSE IF result = "Ok"
       THEN [AuthRequest EXCEPT ![auth_request_id].units_used =
               U32WrappingAdd(AuthRequest[auth_request_id].units_used, units_used)]
       ELSE AuthRequest
  /\ UsageRecords' = IF result = "Ok" THEN save_usage_record(record) ELSE UsageRecords
  /\ last' = Call("track_usage", auth_request_id, result, 0,
                  IF result = "Ok" THEN <<"usage_tracked">> ELSE <<>>)
  /\ UNCHANGED <<AuthCounter, AppealCounter, Documents, PeerToPeer, Appeals, Appeal,
                 Extension, ProviderAuths, PatientAuths, timestamp>>

get_authorization_status(auth_request_id, requester) ==
  LET found == auth_request_id \in DOMAIN AuthRequest IN
  /\ last' = Call("get_status", auth_request_id,
                  IF found THEN "Ok" ELSE "AuthRequestNotFound", 0, <<>>)
  /\ UNCHANGED <<store, timestamp>>

\* ------------------------------------------------------- specifications
\* One step of the contract: the ledger advances or one entry point is invoked with
\* inputs from the given sets. A call that would grow an append-only list, or the
\* request counter, past its cap is not explored; calls that fail always are.
ExploreInputs(Submits, Ids, Contested, Submitters, Insured, Judges, Hashes, DocCap, ServiceDates, Officers, Times, Doctors, Extras, Dates, Levels, Units, UsageCap, Ceilings, Froms, Untils) ==
  \/ Tick
  \/ \E p \in Submitters, q \in Insured :
        AuthCounter < Submits /\ submit_prior_authorization(p, q)
  \/ \E id \in Ids, p \in Addresses, h \in Hashes :
        /\ attach_result(id, p) = "Ok" => Len(VecAt(Documents, id)) < DocCap
        /\ attach_supporting_documentation(id, p, h)
  \/ \E id \in Contested, r \in Judges, d \in DecisionTags :
        \E u \in IF d = "approved" THEN Ceilings ELSE {None},
           vf \in IF d = "approved" THEN Froms ELSE {None},
           vu \in IF d = "approved" THEN Untils ELSE {None} :
          review_authorization(id, r, d, u, vf, vu)
  \/ \E id \in Ids, p \in Addresses, d \in Dates,
        t \in PreferredTimeChoices :
        request_peer_to_peer(id, p, d, t)
  \/ \E id \in Ids, a \in Officers, t \in Times, md \in Doctors :
        schedule_peer_to_peer(id, a, t, md)
  \/ \E id \in Contested, p \in Addresses, l \in Levels : appeal_denial(id, p, l)
  \/ \E id \in Ids, p \in Addresses : expedite_authorization(id, p)
  \/ \E id \in Ids, p \in Addresses, u \in Extras :
        extend_authorization(id, p, u)
  \/ \E id \in Ids, p \in Addresses, u \in Units, sd \in ServiceDates, oc \in BOOLEAN :
        /\ track_result(id, p, u, oc) = "Ok" => Len(VecAt(UsageRecords, id)) < UsageCap
        /\ track_authorization_usage(id, p, u, sd, oc)
  \/ \E id \in Ids, p \in Addresses : get_authorization_status(id, p)

\* The same with one reviewer, one document hash, one document and one service date.
ExploreCalls(Submits, Ids, Contested, Submitters, Insured, Officers, Times, Doctors, Extras, Dates, Levels, Units, UsageCap, Ceilings, Froms, Untils) ==
  ExploreInputs(Submits, Ids, Contested, Submitters, Insured, Reviewers, DocHashes, MaxDocs,
                ServiceDateChoices, Officers, Times, Doctors, Extras, Dates, Levels, Units,
                UsageCap, Ceilings, Froms, Untils)

\* The same with one insurance admin, one scheduled time, one medical director and
\* one extension size.
ExploreRequests(Submits, Ids, Contested, Submitters, Insured, Dates, Levels, Units, UsageCap, Ceilings, Froms, Untils) ==
  ExploreCalls(Submits, Ids, Contested, Submitters, Insured, Admins, ScheduledTimeChoices,
               Directors, ExtensionUnitChoices, Dates, Levels, Units, UsageCap, Ceilings,
               Froms, Untils)

\* The same with one request, submitted by the one provider for the one patient.
Explore(Dates, Levels, Units, UsageCap, Ceilings, Froms, Untils) ==
  ExploreRequests(MaxRequests, RequestIds, RequestIds, Providers, Patients, Dates, Levels,
                  Units, UsageCap, Ceilings, Froms, Untils)

\* Budget and expiry in full (every unit count, two usage records, every approval
\* input), the appeal ladder at one admissible and one inadmissible level.
Next == Explore(RequestedDateChoices, BudgetLevelChoices, UnitChoices, MaxUsage, CeilingChoices,
                ValidFromChoices, ValidUntilChoices)

Spec == Init /\ [][Next]_vars

\* The appeal ladder in full (every level 0..MAX_APPEAL_LEVEL+1) and two requested
\* dates for the peer-to-peer, the budget at one
\* unit count, one usage record and approvals without ceiling.
NextAppeals == Explore(RescheduleDateChoices, LevelChoices, AppealUnitChoices, AppealMaxUsage, {None},
                       {None}, ValidUntilChoices)

SpecAppeals == Init /\ [][NextAppeals]_vars

\* Request ids: two submissions by either provider for either patient, the other
\* entry points on the first request; appeals at two levels, approvals without
\* ceiling or window.
NextIds == ExploreRequests(MaxIdRequests, RequestIds, RequestIds, Addresses, IdPatients,
                           RequestedDateChoices,
                           IdLevelChoices, AppealUnitChoices, AppealMaxUsage, {None},
                           {None}, {None})

SpecIds == Init /\ [][NextIds]_vars

\* Appeal ids: two submissions, both requests open to review and appeal, the other
\* entry points on the first request.
NextAppealIds == ExploreRequests(MaxIdRequests, RequestIds, IdRequestIds, Providers,
                                 Patients, RequestedDateChoices, IdLevelChoices, AppealUnitChoices,
                                 AppealMaxUsage, {None}, {None}, {None})

SpecAppealIds == Init /\ [][NextAppealIds]_vars

\* The stored records in full: scheduling by two callers at two times with two
\* directors, extensions of two sizes, approvals with and without ceiling and expiry;
\* one appeal level, one unit count, one usage record.
NextRecords == ExploreCalls(MaxRequests, RequestIds, RequestIds, Providers, Patients,
                            RecordOfficers, RecordTimeChoices, RecordDirectors,
                            RecordExtensionChoices, RequestedDateChoices, RecordLevelChoices,
                            AppealUnitChoices, AppealMaxUsage, CeilingChoices, {None},
                            ValidUntilChoices)

SpecRecords == Init /\ [][NextRecords]_vars

\* Usage tracking in full: two service dates, two reviewers (one of them the
\* provider), approvals with and without ceiling and expiry; one appeal level, one
\* unit count, one usage record.
NextUsage == ExploreInputs(MaxRequests, RequestIds, RequestIds, Providers, Patients,
                           UsageReviewers, DocHashes, MaxDocs, UsageServiceDates, Admins,
                           ScheduledTimeChoices, Directors, ExtensionUnitChoices,
                           RequestedDateChoices, RecordLevelChoices, AppealUnitChoices,
                           AppealMaxUsage, CeilingChoices, {None}, ValidUntilChoices)

SpecUsage == Init /\ [][NextUsage]_vars

\* Documents in full: two hashes, two documents per request, every status; one
\* appeal level, one unit count, approvals without ceiling.
NextDocs == ExploreInputs(MaxRequests, RequestIds, RequestIds, Providers, Patients,
                          Reviewers, DocsHashes, DocsMaxDocs, ServiceDateChoices, Admins,
                          ScheduledTimeChoices, Directors, ExtensionUnitChoices,
                          RequestedDateChoices, RecordLevelChoices, AppealUnitChoices,
                          AppealMaxUsage, {None}, {None}, ValidUntilChoices)

SpecDocs == Init /\ [][NextDocs]_vars

\* ================================================================ claims
\* Vocabulary of the claims.
PendingStatuses == {"Submitted", "UnderReview", "MoreInfoNeeded", "PeerToPeerScheduled"}

ClosedToReview == {"Approved", "Denied", "Appealed", "Expired"}

Exists(id) == id \in DOMAIN AuthRequest

StatusOf(id) == IF Exists(id) THEN AuthRequest[id].status ELSE "Absent"

AppealLevels(id) == [i \in 1..Len(VecAt(Appeals, id)) |-> Appeals[id][i].appeal_level]

AppealIds(id) == [i \in 1..Len(VecAt(Appeals, id)) |-> Appeals[id][i].appeal_id]

\* The step just taken was an invocation of `op` on an existing request.
Invoked(op) == last'.op = op /\ Exists(last'.id)

\* The edges of the lifecycle graph of section 4.1.
LifecycleEdges ==
  ({"Submitted"} \X {"UnderReview", "MoreInfoNeeded", "PeerToPeerScheduled"})
  \cup (PendingStatuses \X {"Approved", "Denied"})
  \cup ({"UnderReview", "MoreInfoNeeded", "PeerToPeerScheduled"}
          \X {"UnderReview", "MoreInfoNeeded", "PeerToPeerScheduled"})
  \cup {<<"Denied", "Appealed">>, <<"Appealed", "Denied">>, <<"Approved", "Expired">>}

\* ---------------------------------------------------------------------
\* C1: in every reachable state, every request whose approved_units is set has
\* units_used <= approved_units.
\* Violated: a request that was approved and used can be taken back to
\* PeerToPeerScheduled by schedule_peer_to_peer and approved again with a lower
\* ceiling; review_authorization overwrites approved_units and keeps units_used.
C1_UnitsWithinCeiling ==
  \A id \in DOMAIN AuthRequest :
    IsSome(AuthRequest[id].approved_units) =>
      AuthRequest[id].units_used <= Unwrap(AuthRequest[id].approved_units)

\* ---------------------------------------------------------------------
\* C2: every change of a request's status is an edge of the lifecycle graph, and a
\* newly created request is Submitted.
\* Violated: schedule_peer_to_peer writes PeerToPeerScheduled over any status,
\* Approved, Denied, Appealed and Expired included.
C2_LifecycleEdgesOnly ==
  [][\A id \in DOMAIN AuthRequest' :
       IF Exists(id)
       THEN AuthRequest'[id].status /= AuthRequest[id].status =>
              <<AuthRequest[id].status, AuthRequest'[id].status>> \in LifecycleEdges
       ELSE AuthRequest'[id].status = "Submitted"]_vars

\* ---------------------------------------------------------------------
\* C3: Expired is never left; Approved is left only for Expired, by track_usage;
\* Denied is left only for Appealed, by appeal.
\* Violated: schedule_peer_to_peer moves Approved, Denied and Expired requests to
\* PeerToPeerScheduled.
C3_ClosedStatusesStayClosed ==
  [][\A id \in DOMAIN AuthRequest :
       LET was == AuthRequest[id].status
           now == AuthRequest'[id].status
       IN
       /\ was = "Expired" => now = "Expired"
       /\ was = "Approved" =>
            \/ now = "Approved"
            \/ now = "Expired" /\ last'.op = "track_usage"
       /\ was = "Denied" =>
            \/ now = "Denied"
            \/ now = "Appealed" /\ last'.op = "appeal"]_vars

C5_Admissible(id, level) ==
  /\ level <= 3
  /\ VecAt(Appeals, id) /= <<>> => level > Appeals[id][Len(Appeals[id])].appeal_level

C6_OverCeilingRejected ==
  [][Invoked("track_usage") =>
       \A p \in Addresses, u \in UnitChoices, sd \in ServiceDateChoices, oc \in BOOLEAN :
         LET req == AuthRequest[last'.id] IN
         ( /\ p = req.provider_id
           /\ req.status = "Approved"
           /\ ~(IsSome(req.valid_until) /\ timestamp > Unwrap(req.valid_until))
           /\ IsSome(req.approved_units)
           /\ req.units_used + u > Unwrap(req.approved_units)
           /\ track_authorization_usage(last'.id, p, u, sd, oc) ) =>
           last'.result = "ExceedsApprovedUnits" /\ UNCHANGED store]_vars

\* ---------------------------------------------------------------------
\* C7: for an Approved request whose valid_until is set and less than the current
\* time, track_usage by the owning provider fails with AuthorizationExpired and the
\* store afterwards differs only in that request's status, which is Expired.
C7_ExpiryFailsAndPersists ==
  [][Invoked("track_usage") =>
       \A p \in Addresses, u \in UnitChoices, sd \in ServiceDateChoices, oc \in BOOLEAN :
         LET req == AuthRequest[last'.id] IN
         ( /\ p = req.provider_id
           /\ req.status = "Approved"
           /\ IsSome(req.valid_until)
           /\ Unwrap(req.valid_until) < timestamp
           /\ track_authorization_usage(last'.id, p, u, sd, oc) ) =>
           /\ last'.result = "AuthorizationExpired"
           /\ AuthRequest' = [AuthRequest EXCEPT ![last'.id].status = "Expired"]
           /\ AuthRequest'[last'.id].units_used = req.units_used
           /\ UsageRecords' = UsageRecords
           /\ UNCHANGED <<AuthCounter, AppealCounter, Documents, PeerToPeer, Appeals,
                          Appeal, Extension, ProviderAuths, PatientAuths>>]_vars

\* A track_usage call has just failed on a lapsed request that had usage recorded.
C7_Witness ==
  /\ last.op = "track_usage"
  /\ last.result = "AuthorizationExpired"
  /\ StatusOf(last.id) = "Expired"
  /\ AuthRequest[last.id].units_used > 0

\* ---------------------------------------------------------------------
\* C8: a call that returns an Error leaves the store as it was, except track_usage
\* returning AuthorizationExpired, which changes only that request's status, to
\* Expired.
C8_ErrorsWriteNothing ==
  [][last'.result \in Error =>
       IF last'.op = "track_usage" /\ last'.result = "AuthorizationExpired"
       THEN /\ AuthRequest' = [AuthRequest EXCEPT ![last'.id].status = "Expired"]
            /\ UNCHANGED <<AuthCounter, AppealCounter, Documents, PeerToPeer, Appeals,
                           Appeal, Extension, UsageRecords, ProviderAuths,
                           PatientAuths>>
       ELSE UNCHANGED store]_vars

\* An extension has just been refused on a request that is not Approved.
C8_Witness ==
  /\ last.op = "extend"
  /\ last.result = "NotApproved"
  /\ StatusOf(last.id) = "Denied"

\* ---------------------------------------------------------------------
\* C9: an appeal by the owning provider of a Denied or Appealed request fails with
\* MaxAppealLevelReached when its level is above 3, or when the request has appeals
\* and the level is at most that of the last one; nothing is stored and the appeal
\* counter does not move.
C9_InadmissibleLevelRejected ==
  [][Invoked("appeal") =>
       \A p \in Addresses, l \in LevelChoices :
         LET req == AuthRequest[last'.id]
             existing == VecAt(Appeals, last'.id)
         IN
         ( /\ p = req.provider_id
           /\ req.status \in {"Denied", "Appealed"}
           /\ \/ l > 3
              \/ existing /= <<>> /\ l <= existing[Len(existing)].appeal_level
           /\ appeal_denial(last'.id, p, l) ) =>
           /\ last'.result = "MaxAppealLevelReached"
           /\ Appeals' = Appeals
           /\ Appeal' = Appeal
           /\ AppealCounter' = AppealCounter]_vars

\* An appeal has just been refused for its level on a request that has appeals.
C9_Witness ==
  /\ last.op = "appeal"
  /\ last.result = "MaxAppealLevelReached"
  /\ VecAt(Appeals, last.id) /= <<>>

\* ---------------------------------------------------------------------
\* C10: within each request's appeal list the levels strictly increase in list
\* order and none exceeds 3.
C10_LevelsIncrease ==
  \A id \in DOMAIN Appeals :
    /\ \A i \in 1..Len(Appeals[id]) : Appeals[id][i].appeal_level <= 3
    /\ \A i, j \in 1..Len(Appeals[id]) :
         i < j => Appeals[id][i].appeal_level < Appeals[id][j].appeal_level

\* A request carries at least three appeals, the last of them just made.
C10_Witness ==
  \E id \in DOMAIN Appeals :
    /\ Len(Appeals[id]) >= 3
    /\ last.op = "appeal" /\ last.result = "Ok" /\ last.id = id

\* ---------------------------------------------------------------------
\* C11: every stored appeal, in a request's list or under its own id, has a level in
\* 1..3, and no request has more than three appeals.
\* Violated: appeal_denial only rejects levels above MAX_APPEAL_LEVEL and levels not
\* above the last one, so a first appeal at level 0 is stored, and 0, 1, 2, 3 makes
\* four appeals on one request.
C11_LevelsOneToThree ==
  /\ \A id \in DOMAIN Appeals :
       /\ Len(Appeals[id]) <= 3
       /\ \A i \in 1..Len(Appeals[id]) : Appeals[id][i].appeal_level \in 1..3
  /\ \A a \in DOMAIN Appeal : Appeal[a].appeal_level \in 1..3

\* ---------------------------------------------------------------------
\* C12: the n-th successful submit returns id n. The stored requests are exactly
\* those with ids 1..AuthCounter, each stored under its own id and never removed; a
\* submit returns one more than the number of requests stored before it, an id not
\* stored before; and every other call, failed or not, leaves the counter and the set
\* of stored ids as they were.
C12_SubmitReturnsNth ==
  [][/\ DOMAIN AuthRequest' = 1..AuthCounter'
     /\ \A id \in DOMAIN AuthRequest' : AuthRequest'[id].auth_request_id = id
     /\ DOMAIN AuthRequest \subseteq DOMAIN AuthRequest'
     /\ IF last'.op = "submit"
        THEN /\ last'.result = "Ok"
             /\ last'.ret = Cardinality(DOMAIN AuthRequest) + 1
             /\ last'.ret \notin DOMAIN AuthRequest
             /\ last'.ret \in DOMAIN AuthRequest'
             /\ AuthCounter' = last'.ret
        ELSE /\ AuthCounter' = AuthCounter
             /\ DOMAIN AuthRequest' = DOMAIN AuthRequest]_vars

\* A second submit, by another provider for another patient, has just returned 2
\* while the first request had been denied and appealed.
C12_Witness ==
  /\ last.op = "submit" /\ last.result = "Ok" /\ last.ret = 2
  /\ StatusOf(1) = "Appealed"
  /\ AuthRequest[1].provider_id /= AuthRequest[2].provider_id
  /\ AuthRequest[1].patient_id /= AuthRequest[2].patient_id

\* The appeals held in the per-request lists, as (request, position) pairs.
C13_Listed ==
  UNION {{<<id, i>> : i \in 1..Len(Appeals[id])} : id \in DOMAIN Appeals}

\* ---------------------------------------------------------------------
\* C13: appeal ids come from one counter shared by all requests: a successful appeal
\* returns one more than the number of appeals stored so far, whichever request it
\* is on, and no other call moves the counter. The by-id index and the per-request
\* lists hold the same appeals: the index holds ids 1..AppealCounter, each appeal
\* under its own id, and each of them sits at exactly one place of the lists, in the
\* list of its own request, with the same content; the lists hold nothing else.
C13_OneCounterTwoIndexes ==
  [][/\ IF last'.op = "appeal" /\ last'.result = "Ok"
        THEN /\ last'.ret = Cardinality(DOMAIN Appeal) + 1
             /\ last'.ret = AppealCounter + 1
             /\ AppealCounter' = last'.ret
             /\ Appeal'[last'.ret].auth_request_id = last'.id
        ELSE AppealCounter' = AppealCounter /\ Appeal' = Appeal /\ Appeals' = Appeals
     /\ DOMAIN Appeal' = 1..AppealCounter'
     /\ \A a \in DOMAIN Appeal' :
          /\ Appeal'[a].appeal_id = a
          /\ Cardinality({x \in C13_Listed' : Appeals'[x[1]][x[2]].appeal_id = a}) = 1
          /\ \E i \in 1..Len(VecAt(Appeals', Appeal'[a].auth_request_id)) :
               Appeals'[Appeal'[a].auth_request_id][i] = Appeal'[a]
     /\ \A x \in C13_Listed' :
          LET e == Appeals'[x[1]][x[2]] IN
          /\ e.auth_request_id = x[1]
          /\ e.appeal_id \in DOMAIN Appeal'
          /\ Appeal'[e.appeal_id] = e]_vars

\* Both requests carry appeals, made alternately: ids 1 and 3 on one, 2 on the other.
C13_Witness ==
  /\ last.op = "appeal" /\ last.result = "Ok" /\ last.ret = 3
  /\ AppealIds(1) = <<1, 3>>
  /\ AppealIds(2) = <<2>>

\* ---------------------------------------------------------------------
\* C14: once a request has a peer-to-peer record, a request_peer_to_peer call by its
\* owning provider fails with PeerToPeerAlreadyScheduled, whatever date it asks for,
\* whether or not the record has been scheduled and whatever the request's status,
\* and leaves the record and the rest of the store as they were.
C14_SecondRequestRejected ==
  [][Invoked("request_peer_to_peer") /\ last'.id \in DOMAIN PeerToPeer =>
       \A p \in Addresses, d \in RescheduleDateChoices, t \in PreferredTimeChoices :
         ( /\ p = AuthRequest[last'.id].provider_id
           /\ request_peer_to_peer(last'.id, p, d, t) ) =>
           /\ last'.result = "PeerToPeerAlreadyScheduled"
           /\ PeerToPeer' = PeerToPeer
           /\ UNCHANGED store]_vars

\* A second request has just been refused on an Approved request whose peer-to-peer,
\* asked for date 1, has been scheduled.
C14_Witness ==
  /\ last.op = "request_peer_to_peer"
  /\ last.result = "PeerToPeerAlreadyScheduled"
  /\ StatusOf(last.id) = "Approved"
  /\ IsSome(PeerToPeer[last.id].scheduled_time)
  /\ PeerToPeer[last.id].requested_date = 1

\* ---------------------------------------------------------------------
\* C15: a peer-to-peer record is never deleted or replaced: in every step each
\* existing record stays, with the same request, provider, requested date and
\* preferred times; its scheduled time and medical director change only in a
\* successful schedule_peer_to_peer on that request.
C15_RecordKept ==
  [][\A id \in DOMAIN PeerToPeer :
       /\ id \in DOMAIN PeerToPeer'
       /\ PeerToPeer'[id].auth_request_id = PeerToPeer[id].auth_request_id
       /\ PeerToPeer'[id].provider_id = PeerToPeer[id].provider_id
       /\ PeerToPeer'[id].requested_date = PeerToPeer[id].requested_date
       /\ PeerToPeer'[id].preferred_times = PeerToPeer[id].preferred_times
       /\ ( \/ PeerToPeer'[id].scheduled_time /= PeerToPeer[id].scheduled_time
            \/ PeerToPeer'[id].medical_director /= PeerToPeer[id].medical_director ) =>
            /\ last'.op = "schedule_peer_to_peer"
            /\ last'.id = id
            /\ last'.result = "Ok"]_vars

\* A record asked for date 2 has just been scheduled and still carries date 2.
C15_Witness ==
  /\ last.op = "schedule_peer_to_peer" /\ last.result = "Ok"
  /\ PeerToPeer[last.id].requested_date = 2
  /\ PeerToPeer[last.id].scheduled_time = Some(1)
  /\ PeerToPeer[last.id].medical_director = Some("directorA")

\* ---------------------------------------------------------------------
\* C16: valid_from and valid_until of a request are both unset or both set; they
\* change only in a successful review with decision approved; once set they are
\* never unset again.
\* Violated: review_authorization stores the two Option arguments as passed, so an
\* approval with valid_from set and valid_until unset leaves one without the other,
\* and a second approval (after schedule_peer_to_peer) with None clears a set window.
C16_WindowSetTogether ==
  [][\A id \in DOMAIN AuthRequest' :
       LET now == AuthRequest'[id] IN
       /\ IsSome(now.valid_from) <=> IsSome(now.valid_until)
       /\ Exists(id) =>
            LET was == AuthRequest[id] IN
            /\ ( now.valid_from /= was.valid_from \/ now.valid_until /= was.valid_until ) =>
                 /\ last'.op = "review" /\ last'.id = id /\ last'.result = "Ok"
                 /\ now.decision = Some("approved")
            /\ IsSome(was.valid_from) => IsSome(now.valid_from)
            /\ IsSome(was.valid_until) => IsSome(now.valid_until)]_vars

\* ---------------------------------------------------------------------
\* C17: no step lowers units_used of a request, and a newly submitted request has
\* units_used 0.
\* Violated: the total is kept by a u32 addition; on a request approved without
\* ceiling a call whose units take the sum past the u32 range is accepted and the
\* stored total wraps to a smaller value (build without overflow checks).
C17_UnitsNeverDecrease ==
  [][\A id \in DOMAIN AuthRequest' :
       IF Exists(id)
       THEN AuthRequest'[id].units_used >= AuthRequest[id].units_used
       ELSE AuthRequest'[id].units_used = 0]_vars

\* ---------------------------------------------------------------------
\* C18: a request whose status is Denied or Appealed has approved_units, valid_from
\* and valid_until all unset.
\* Violated: an Approved request goes back to PeerToPeerScheduled through
\* schedule_peer_to_peer and is then denied; the denial leaves the ceiling and window
\* of the earlier approval in place.
C18_DeniedHasNoGrant ==
  \A id \in DOMAIN AuthRequest :
    AuthRequest[id].status \in {"Denied", "Appealed"} =>
      /\ AuthRequest[id].approved_units = None
      /\ AuthRequest[id].valid_from = None
      /\ AuthRequest[id].valid_until = None

\* ---------------------------------------------------------------------
\* C19: a review with decision approved of a request in a reviewable status succeeds,
\* sets status Approved, approved_units, valid_from and valid_until to the values
\* passed, decision to approved and decision_date to the current time, and changes
\* nothing else: units_used, expedited, provider, patient and id of the request, the
\* other requests and the rest of the store are as before.
C19_ApprovalStoresInputs ==
  [][Invoked("review") /\ AuthRequest[last'.id].status \in PendingStatuses =>
       \A r \in Reviewers, u \in CeilingChoices, vf \in ValidFromChoices,
          vu \in ValidUntilChoices :
         review_authorization(last'.id, r, "approved", u, vf, vu) =>
           LET was == AuthRequest[last'.id]
               now == AuthRequest'[last'.id]
           IN
           /\ last'.result = "Ok"
           /\ now.status = "Approved"
           /\ now.approved_units = u
           /\ now.valid_from = vf
           /\ now.valid_until = vu
           /\ now.decision = Some("approved")
           /\ now.decision_date = Some(timestamp)
           /\ now.units_used = was.units_used
           /\ now.expedited = was.expedited
           /\ now.provider_id = was.provider_id
           /\ now.patient_id = was.patient_id
           /\ now.auth_request_id = was.auth_request_id
           /\ \A id \in DOMAIN AuthRequest' \ {last'.id} :
                Exists(id) /\ AuthRequest'[id] = AuthRequest[id]
           /\ UNCHANGED <<AuthCounter, AppealCounter, Documents, PeerToPeer, Appeals,
                          Appeal, Extension, UsageRecords, ProviderAuths, PatientAuths,
                          timestamp>>]_vars

\* An expedited request with usage recorded has just been approved a second time, at
\* time 1, with a ceiling and a window start.
C19_Witness ==
  /\ last.op = "review" /\ last.result = "Ok"
  /\ StatusOf(last.id) = "Approved"
  /\ AuthRequest[last.id].approved_units = Some(MaxCeiling)
  /\ AuthRequest[last.id].valid_from = Some(0)
  /\ AuthRequest[last.id].decision_date = Some(1)
  /\ AuthRequest[last.id].units_used > 0
  /\ AuthRequest[last.id].expedited

\* ---------------------------------------------------------------------
\* C20: a review of a request in a reviewable status with a decision tag other than
\* approved, denied, more_info_needed fails with InvalidDecision and leaves the
\* request and the rest of the store unchanged; with more_info_needed it succeeds,
\* sets status MoreInfoNeeded and leaves decision_date as it was.
C20_UnknownTagRejected ==
  [][Invoked("review") /\ AuthRequest[last'.id].status \in PendingStatuses =>
       \A r \in Reviewers, d \in DecisionTags \ {"approved", "denied"} :
         review_authorization(last'.id, r, d, None, None, None) =>
           LET was == AuthRequest[last'.id]
               now == AuthRequest'[last'.id]
           IN
           /\ d \notin {"approved", "denied", "more_info_needed"} =>
                /\ last'.result = "InvalidDecision"
                /\ now = was
                /\ UNCHANGED store
           /\ d = "more_info_needed" =>
                /\ last'.result = "Ok"
                /\ now.status = "MoreInfoNeeded"
                /\ now.decision_date = was.decision_date]_vars

\* An unknown tag has just been refused on a request that an earlier
\* more_info_needed review left in MoreInfoNeeded with its decision date still set.
C20_Witness ==
  /\ last.op = "review" /\ last.result = "InvalidDecision"
  /\ StatusOf(last.id) = "MoreInfoNeeded"
  /\ AuthRequest[last.id].decision = Some("more_info_needed")
  /\ IsSome(AuthRequest[last.id].decision_date)

\* The specification's name for Error::AuthRequestNotFound.
RequestNotFound == "AuthRequestNotFound"

C22_ScheduleAlwaysOverwrites ==
  [][last'.op = "schedule_peer_to_peer" =>
       \A a \in RecordOfficers, t \in RecordTimeChoices, md \in RecordDirectors :
         schedule_peer_to_peer(last'.id, a, t, md) =>
           IF Exists(last'.id) /\ last'.id \in DOMAIN PeerToPeer
           THEN /\ last'.result = "Ok"
                /\ PeerToPeer' =
                     [PeerToPeer EXCEPT ![last'.id].scheduled_time = Some(t),
                                        ![last'.id].medical_director = Some(md)]
                /\ AuthRequest' =
                     [AuthRequest EXCEPT ![last'.id].status = "PeerToPeerScheduled"]
           ELSE /\ last'.result = RequestNotFound
                /\ UNCHANGED store]_vars

\* A peer-to-peer has just been scheduled again, for another time with another
\* director, on a request that had been appealed.
C22_Witness ==
  /\ last.op = "schedule_peer_to_peer" /\ last.result = "Ok"
  /\ StatusOf(last.id) = "PeerToPeerScheduled"
  /\ PeerToPeer[last.id].scheduled_time = Some(2)
  /\ PeerToPeer[last.id].medical_director = Some("directorB")
  /\ VecAt(Appeals, last.id) /= <<>>

\* ---------------------------------------------------------------------
\* C23: an expedite by the owning provider succeeds when the status is Submitted,
\* UnderReview or MoreInfoNeeded, and then changes only the expedited flag, to true;
\* in PeerToPeerScheduled, Approved, Denied, Appealed and Expired it fails with
\* InvalidStatusTransition and changes nothing.
C23_ExpediteOnlyEarly ==
  [][Invoked("expedite") =>
       \A p \in Addresses :
         ( /\ p = AuthRequest[last'.id].provider_id
           /\ expedite_authorization(last'.id, p) ) =>
           IF AuthRequest[last'.id].status \in {"Submitted", "UnderReview", "MoreInfoNeeded"}
           THEN /\ last'.result = "Ok"
                /\ AuthRequest' = [AuthRequest EXCEPT ![last'.id].expedited = TRUE]
                /\ UNCHANGED <<AuthCounter, AppealCounter, Documents, PeerToPeer, Appeals,
                               Appeal, Extension, UsageRecords, ProviderAuths,
                               PatientAuths>>
           ELSE /\ last'.result = "InvalidStatusTransition"
                /\ UNCHANGED store]_vars

\* An expedite has just been refused on a request whose peer-to-peer is scheduled.
C23_Witness ==
  /\ last.op = "expedite" /\ last.result = "InvalidStatusTransition"
  /\ StatusOf(last.id) = "PeerToPeerScheduled"
  /\ ~AuthRequest[last.id].expedited

\* ---------------------------------------------------------------------
\* C24: a newly submitted request is not expedited, and a request that is expedited
\* stays expedited in every step.
C24_ExpeditedOneWay ==
  [][\A id \in DOMAIN AuthRequest' :
       IF Exists(id)
       THEN AuthRequest[id].expedited => AuthRequest'[id].expedited
       ELSE ~AuthRequest'[id].expedited]_vars

\* An expedited request has been approved, has lapsed, and is still expedited.
C24_Witness ==
  \E id \in DOMAIN AuthRequest :
    /\ AuthRequest[id].expedited
    /\ AuthRequest[id].status = "Expired"
    /\ last.op = "track_usage" /\ last.id = id

\* ---------------------------------------------------------------------
\* C25: an extend by the owning provider succeeds when the status is Approved and
\* fails with NotApproved otherwise. A successful extend leaves every request record
\* as it was and stores the call's extension as the one extension of the request, in
\* place of an earlier one. A later track_usage is judged against the ceiling of the
\* approval: with an extension stored, a call whose sum stays in the u32 range is
\* refused with ExceedsApprovedUnits exactly when units_used + units is above it.
C25_ExtendIsAdvisory ==
  [][/\ Invoked("extend") =>
          \A p \in Addresses, u \in RecordExtensionChoices :
            ( /\ p = AuthRequest[last'.id].provider_id
              /\ extend_authorization(last'.id, p, u) ) =>
              IF AuthRequest[last'.id].status = "Approved"
              THEN /\ last'.result = "Ok"
                   /\ AuthRequest' = AuthRequest
                   /\ DOMAIN Extension' = DOMAIN Extension \cup {last'.id}
                   /\ Extension'[last'.id] =
                        [auth_request_id |-> last'.id, provider_id |-> p,
                         requested_additional_units |-> u]
                   /\ \A id \in DOMAIN Extension \ {last'.id} :
                        Extension'[id] = Extension[id]
                   /\ UNCHANGED <<AuthCounter, AppealCounter, Documents, PeerToPeer,
                                  Appeals, Appeal, UsageRecords, ProviderAuths,
                                  PatientAuths>>
              ELSE /\ last'.result = "NotApproved"
                   /\ UNCHANGED store
     /\ Invoked("track_usage") /\ last'.id \in DOMAIN Extension =>
          \A p \in Addresses, u \in AppealUnitChoices, sd \in ServiceDateChoices, oc \in BOOLEAN :
            LET req == AuthRequest[last'.id] IN
            ( /\ p = req.provider_id
              /\ req.status = "Approved"
              /\ ~(IsSome(req.valid_until) /\ timestamp > Unwrap(req.valid_until))
              /\ IsSome(req.approved_units)
              /\ req.units_used + u < U32Modulus
              /\ track_authorization_usage(last'.id, p, u, sd, oc) ) =>
              ( last'.result = "ExceedsApprovedUnits" <=>
                  req.units_used + u > Unwrap(req.approved_units) )]_vars

\* With an extension of two units stored, a track_usage call has just been refused
\* against the ceiling of the approval, which the request has used up.
C25_Witness ==
  /\ last.op = "track_usage" /\ last.result = "ExceedsApprovedUnits"
  /\ last.id \in DOMAIN Extension
  /\ Extension[last.id].requested_additional_units = 2
  /\ AuthRequest[last.id].approved_units = Some(MaxCeiling)
  /\ AuthRequest[last.id].units_used = MaxCeiling

\* ---------------------------------------------------------------------
\* C26: a successful track_usage(units) raises units_used by exactly units, appends
\* one UsageRecord with those units to the request's list, the earlier records
\* unchanged, and leaves the status Approved.
\* Violated: the new total is a u32 sum; a call accepted while the sum leaves the u32
\* range stores the wrapped total (build without overflow checks).
C26_UsageAdded ==
  [][Invoked("track_usage") /\ last'.result = "Ok" =>
       \A p \in Addresses, u \in UnitChoices, sd \in ServiceDateChoices, oc \in BOOLEAN :
         track_authorization_usage(last'.id, p, u, sd, oc) =>
           /\ AuthRequest[last'.id].status = "Approved"
           /\ AuthRequest' =
                [AuthRequest EXCEPT ![last'.id].units_used =
                   AuthRequest[last'.id].units_used + u]
           /\ UsageRecords'[last'.id] =
                Append(VecAt(UsageRecords, last'.id),
                       [auth_request_id |-> last'.id, provider_id |-> p,
                        units_used |-> u, service_date |-> sd])]_vars

\* ---------------------------------------------------------------------
\* C27: a track_usage by the owning provider on a request whose status is not
\* Approved fails with NotApproved; no UsageRecord is stored, units_used and the rest
\* of the store are unchanged.
C27_NotApprovedRejected ==
  [][Invoked("track_usage") /\ AuthRequest[last'.id].status /= "Approved" =>
       \A p \in Addresses, u \in AppealUnitChoices, sd \in ServiceDateChoices, oc \in BOOLEAN :
         ( /\ p = AuthRequest[last'.id].provider_id
           /\ track_authorization_usage(last'.id, p, u, sd, oc) ) =>
           /\ last'.result = "NotApproved"
           /\ UsageRecords' = UsageRecords
           /\ AuthRequest'[last'.id].units_used = AuthRequest[last'.id].units_used
           /\ UNCHANGED store]_vars

\* A track_usage has just been refused on a request that had lapsed after use.
C27_Witness ==
  /\ last.op = "track_usage" /\ last.result = "NotApproved"
  /\ StatusOf(last.id) = "Expired"
  /\ AuthRequest[last.id].units_used > 0

\* ---------------------------------------------------------------------
\* C28: an appeal by the owning provider at an admissible level (1..3, above the
\* last appeal's if there is one) succeeds when the status is Denied or Appealed,
\* leaving it Appealed with the appeal appended, so that an Appealed request is
\* appealed again without a review in between; in every other status it fails with
\* NotDenied and changes nothing.
C28_AppealFromDeniedOrAppealed ==
  [][Invoked("appeal") =>
       \A p \in Addresses, l \in 1..3 :
         LET existing == VecAt(Appeals, last'.id) IN
         ( /\ p = AuthRequest[last'.id].provider_id
           /\ existing /= <<>> => l > existing[Len(existing)].appeal_level
           /\ appeal_denial(last'.id, p, l) ) =>
           IF AuthRequest[last'.id].status \in {"Denied", "Appealed"}
           THEN /\ last'.result = "Ok"
                /\ AuthRequest'[last'.id].status = "Appealed"
                /\ Len(Appeals'[last'.id]) = Len(existing) + 1
                /\ Appeals'[last'.id][Len(existing) + 1].appeal_level = l
           ELSE /\ last'.result = "NotDenied"
                /\ UNCHANGED store]_vars

\* An appeal has just been refused on a request that was denied, appealed and then
\* had its peer-to-peer scheduled.
C28_Witness ==
  /\ last.op = "appeal" /\ last.result = "NotDenied"
  /\ StatusOf(last.id) = "PeerToPeerScheduled"
  /\ VecAt(Appeals, last.id) /= <<>>

\* ---------------------------------------------------------------------
\* C29: an invocation that changes the store publishes exactly one event, and one
\* that leaves the store as it was publishes none.
\* Violated: track_usage on a lapsed request saves status Expired and returns
\* AuthorizationExpired without publishing; and a call that succeeds while storing
\* what is already stored (a second expedite, a repeated extend or schedule)
\* publishes its event although the store is unchanged.
C29_OneEventPerChange ==
  [][last'.op \notin {"init", "tick"} =>
       IF store' /= store
       THEN Len(last'.events) = 1
       ELSE Len(last'.events) = 0]_vars

\* The gate of a provider-gated entry point, for the step just taken by caller p.
C30_Gate(p) ==
  IF ~Exists(last'.id)
  THEN last'.result = RequestNotFound /\ UNCHANGED store
  ELSE p /= AuthRequest[last'.id].provider_id =>
         last'.result = "Unauthorized" /\ UNCHANGED store

\* ---------------------------------------------------------------------
\* C30: attach_document, request_peer_to_peer, appeal, expedite, extend and
\* track_usage fail with RequestNotFound when the request id is unknown, and with
\* Unauthorized when the caller is not the request's stored provider, whatever the
\* status and the other inputs; in both cases the store is unchanged.
C30_ProviderGate ==
  [][/\ last'.op = "attach_document" =>
          \A p \in Addresses, h \in DocHashes :
            attach_supporting_documentation(last'.id, p, h) => C30_Gate(p)
     /\ last'.op = "request_peer_to_peer" =>
          \A p \in Addresses, d \in RequestedDateChoices, t \in PreferredTimeChoices :
            request_peer_to_peer(last'.id, p, d, t) => C30_Gate(p)
     /\ last'.op = "appeal" =>
          \A p \in Addresses, l \in RecordLevelChoices :
            appeal_denial(last'.id, p, l) => C30_Gate(p)
     /\ last'.op = "expedite" =>
          \A p \in Addresses : expedite_authorization(last'.id, p) => C30_Gate(p)
     /\ last'.op = "extend" =>
          \A p \in Addresses, u \in RecordExtensionChoices :
            extend_authorization(last'.id, p, u) => C30_Gate(p)
     /\ last'.op = "track_usage" =>
          \A p \in Addresses, u \in AppealUnitChoices, sd \in ServiceDateChoices, oc \in BOOLEAN :
            track_authorization_usage(last'.id, p, u, sd, oc) => C30_Gate(p)]_vars

\* Another provider's track_usage has just been refused on an Approved request.
C30_Witness ==
  /\ last.op = "track_usage" /\ last.result = "Unauthorized"
  /\ StatusOf(last.id) = "Approved"
  /\ IsSome(AuthRequest[last.id].approved_units)

\* ---------------------------------------------------------------------
\* C31: for an Approved request whose valid_until is before the current time, a
\* track_usage call by the owning provider that would also exceed the ceiling fails
\* with AuthorizationExpired, not ExceedsApprovedUnits, and leaves the status
\* Expired, whatever service date the call supplies, one inside the window included.
C31_ExpiryBeforeCeiling ==
  [][Invoked("track_usage") =>
       \A p \in Addresses, u \in AppealUnitChoices, sd \in UsageServiceDates,
          oc \in BOOLEAN :
         LET req == AuthRequest[last'.id] IN
         ( /\ p = req.provider_id
           /\ req.status = "Approved"
           /\ IsSome(req.valid_until)
           /\ Unwrap(req.valid_until) < timestamp
           /\ IsSome(req.approved_units)
           /\ req.units_used + u > Unwrap(req.approved_units)
           /\ track_authorization_usage(last'.id, p, u, sd, oc) ) =>
           /\ last'.result = "AuthorizationExpired"
           /\ AuthRequest'[last'.id].status = "Expired"
           /\ AuthRequest'[last'.id].units_used = req.units_used
           /\ UsageRecords' = UsageRecords]_vars

\* A track_usage has just failed as expired on a request that had used up its
\* ceiling, with a usage record dated inside the window.
C31_Witness ==
  /\ last.op = "track_usage" /\ last.result = "AuthorizationExpired"
  /\ StatusOf(last.id) = "Expired"
  /\ AuthRequest[last.id].approved_units = Some(MaxCeiling)
  /\ AuthRequest[last.id].units_used = MaxCeiling
  /\ AuthRequest[last.id].valid_until = Some(0)
  /\ UsageRecords[last.id][1].service_date = 0

\* ---------------------------------------------------------------------
\* C32: over u32 units, a track_usage call either is rejected with units_used
\* unchanged or stores exactly units_used + units, and it is rejected whenever
\* units_used + units is above a set ceiling: the sum never wraps.
\* Violated: both sums are plain u32 additions (lib.rs:411 and 416); past the u32
\* range the call traps, or wraps and is accepted with the wrapped total stored.
C32_SumNeverWraps ==
  [][Invoked("track_usage") =>
       \A p \in Addresses, u \in UnitChoices, sd \in ServiceDateChoices, oc \in BOOLEAN :
         LET req == AuthRequest[last'.id] IN
         track_authorization_usage(last'.id, p, u, sd, oc) =>
           /\ last'.result \in Error \cup {"Ok"}
           /\ IF last'.result = "Ok"
              THEN /\ AuthRequest'[last'.id].units_used = req.units_used + u
                   /\ IsSome(req.approved_units) =>
                        req.units_used + u <= Unwrap(req.approved_units)
              ELSE AuthRequest'[last'.id].units_used = req.units_used]_vars

\* The ids of the stored requests with field f equal to v, in increasing order.
C33_IdsWhere(requests, f, v) ==
  LET ids == {id \in DOMAIN requests : requests[id][f] = v}
      Upto(n) == {id \in ids : id <= n}
  IN [i \in 1..Cardinality(ids) |->
        CHOOSE id \in ids : Cardinality(Upto(id)) = i]

\* ---------------------------------------------------------------------
\* C33: the list stored for a provider (a patient) holds exactly the ids of the
\* requests of that provider (patient), each once, in increasing order, and no list
\* is stored for a provider or patient without requests; a step changes a list only
\* by appending to it.
C33_IndexesMatchRequests ==
  /\ [](/\ \A a \in Addresses \cup IdPatients :
            /\ VecAt(ProviderAuths, a) = C33_IdsWhere(AuthRequest, "provider_id", a)
            /\ VecAt(PatientAuths, a) = C33_IdsWhere(AuthRequest, "patient_id", a)
        /\ DOMAIN ProviderAuths \subseteq Addresses
        /\ DOMAIN PatientAuths \subseteq IdPatients)
  /\ [][\A a \in Addresses \cup IdPatients :
          /\ Len(VecAt(ProviderAuths', a)) >= Len(VecAt(ProviderAuths, a))
          /\ Len(VecAt(PatientAuths', a)) >= Len(VecAt(PatientAuths, a))
          /\ SubSeq(VecAt(ProviderAuths', a), 1, Len(VecAt(ProviderAuths, a)))
               = VecAt(ProviderAuths, a)
          /\ SubSeq(VecAt(PatientAuths', a), 1, Len(VecAt(PatientAuths, a)))
               = VecAt(PatientAuths, a)]_vars

\* One provider has submitted two requests, for two patients.
C33_Witness ==
  /\ last.op = "submit" /\ last.ret = 2
  /\ VecAt(ProviderAuths, "addrB") = <<1, 2>>
  /\ VecAt(PatientAuths, "patient2") = <<1>>
  /\ VecAt(PatientAuths, "patient1") = <<2>>

\* ---------------------------------------------------------------------
\* C34: an attach_document by the owning provider succeeds in every status, appends
\* one document carrying the call's hash to the end of the request's list, the
\* earlier documents unchanged, and leaves every request record and the rest of the
\* store as they were.
C34_DocumentAppended ==
  [][Invoked("attach_document") =>
       \A p \in Addresses, h \in DocsHashes :
         ( /\ p = AuthRequest[last'.id].provider_id
           /\ attach_supporting_documentation(last'.id, p, h) ) =>
           LET was == VecAt(Documents, last'.id) IN
           /\ last'.result = "Ok"
           /\ Len(Documents'[last'.id]) = Len(was) + 1
           /\ SubSeq(Documents'[last'.id], 1, Len(was)) = was
           /\ Documents'[last'.id][Len(was) + 1].document_hash = h
           /\ Documents'[last'.id][Len(was) + 1].provider_id = p
           /\ Documents'[last'.id][Len(was) + 1].auth_request_id = last'.id
           /\ AuthRequest' = AuthRequest
           /\ UNCHANGED <<AuthCounter, AppealCounter, PeerToPeer, Appeals, Appeal,
                          Extension, UsageRecords, ProviderAuths, PatientAuths>>]_vars

\* A second document, with another hash, has just been attached to a request that
\* has lapsed.
C34_Witness ==
  /\ last.op = "attach_document" /\ last.result = "Ok"
  /\ StatusOf(last.id) = "Expired"
  /\ Len(Documents[last.id]) = 2
  /\ Documents[last.id][1].document_hash = "doc1"
  /\ Documents[last.id][2].document_hash = "doc2"

\* ---------------------------------------------------------------------
\* C35: the outcome of a review does not depend on the reviewer: whatever a review
\* call by one reviewer returns and stores, the same call by any other reviewer, the
\* request's own provider included, returns and stores the same from the same state.
C35_ReviewerIrrelevant ==
  [][last'.op = "review" =>
       \A r1 \in UsageReviewers, d \in DecisionTags, u \in CeilingChoices,
          vu \in ValidUntilChoices :
         review_authorization(last'.id, r1, d, u, None, vu) =>
           \A r2 \in UsageReviewers :
             review_authorization(last'.id, r2, d, u, None, vu)]_vars

\* The owning provider's own request stands approved, with ceiling and window end.
C35_Witness ==
  /\ last.op = "review" /\ last.result = "Ok"
  /\ StatusOf(last.id) = "Approved"
  /\ AuthRequest[last.id].provider_id \in UsageReviewers
  /\ AuthRequest[last.id].approved_units = Some(MaxCeiling)
  /\ AuthRequest[last.id].valid_until = Some(0)

\* ---------------------------------------------------------------------
\* C36: the units_used of every request equals the sum of the units of its usage
\* records (both zero while nothing was consumed).
RECURSIVE C36_SumUnits(_)
C36_SumUnits(records) ==
  IF records = <<>> THEN 0
  ELSE records[1].units_used + C36_SumUnits(Tail(records))

C36_UsedIsSumOfRecords ==
  \A id \in DOMAIN AuthRequest :
    AuthRequest[id].units_used = C36_SumUnits(VecAt(UsageRecords, id))

\* ---------------------------------------------------------------------
\* C37: only track_authorization_usage detects a lapsed window. A request becomes
\* Expired only in a usage call by its provider that returns AuthorizationExpired; an
\* Approved request whose valid_until is behind the clock stays Approved when time
\* passes, when its status is read and when its extension is requested, and that
\* extension request by the provider succeeds.
C37_Lapsed(id) ==
  /\ Exists(id)
  /\ AuthRequest[id].status = "Approved"
  /\ IsSome(AuthRequest[id].valid_until)
  /\ timestamp > Unwrap(AuthRequest[id].valid_until)

C37_ExpiryOnlyOnUsage ==
  [][/\ \A id \in DOMAIN AuthRequest :
          (AuthRequest[id].status /= "Expired" /\ AuthRequest'[id].status = "Expired") =>
            /\ last'.op = "track_usage" /\ last'.id = id
            /\ last'.result = "AuthorizationExpired"
            /\ C37_Lapsed(id)
     /\ \A id \in DOMAIN AuthRequest :
          ( /\ AuthRequest[id].status = "Approved"
            /\ IsSome(AuthRequest[id].valid_until)
            /\ timestamp' > Unwrap(AuthRequest[id].valid_until)
            /\ last'.op \in {"tick", "get_status", "extend"} ) =>
            AuthRequest'[id].status = "Approved"
     /\ (Invoked("extend") /\ C37_Lapsed(last'.id)) =>
          \A u \in ExtensionUnitChoices :
            extend_authorization(last'.id, AuthRequest[last'.id].provider_id, u) =>
              /\ last'.result = "Ok"
              /\ AuthRequest' = AuthRequest
              /\ Extension'[last'.id].requested_additional_units = u
     /\ (Invoked("track_usage") /\ C37_Lapsed(last'.id)) =>
          \A u \in AppealUnitChoices, sd \in UsageServiceDates, oc \in BOOLEAN :
            track_authorization_usage(last'.id, AuthRequest[last'.id].provider_id,
                                      u, sd, oc) =>
              /\ last'.result = "AuthorizationExpired"
              /\ AuthRequest'[last'.id].status = "Expired"]_vars

\* An extension was requested, and taken, for an authorization already lapsed.
C37_Witness ==
  /\ last.op = "extend" /\ last.result = "Ok"
  /\ C37_Lapsed(last.id)
  /\ last.id \in DOMAIN Extension

\* ---------------------------------------------------------------------
\* C38: the expiry comparison is strict. A usage call by the provider on an Approved
\* request whose valid_until is unset, or not before the clock (equal included), is
\* never answered AuthorizationExpired: the request stays Approved and the call is
\* decided by the ceiling check.
C38_ExpiryIsStrict ==
  [][Invoked("track_usage") =>
       \A u \in AppealUnitChoices, sd \in UsageServiceDates, oc \in BOOLEAN :
         LET req == AuthRequest[last'.id] IN
         ( /\ req.status = "Approved"
           /\ \/ req.valid_until = None
              \/ timestamp <= Unwrap(req.valid_until)
           /\ track_authorization_usage(last'.id, req.provider_id, u, sd, oc) ) =>
           /\ last'.result /= "AuthorizationExpired"
           /\ AuthRequest'[last'.id].status = "Approved"
           /\ last'.result =
                IF IsSome(req.approved_units) /\ req.units_used + u > Unwrap(req.approved_units)
                THEN "ExceedsApprovedUnits" ELSE "Ok"]_vars

\* Usage was recorded at the very instant the window ends.
C38_Witness ==
  /\ last.op = "track_usage" /\ last.result = "Ok"
  /\ AuthRequest[last.id].valid_until = Some(timestamp)
  /\ AuthRequest[last.id].status = "Approved"
  /\ AuthRequest[last.id].units_used > 0

\* ---------------------------------------------------------------------
\* C39: the decision fields agree with the status. decision is unset exactly while a
\* request was never reviewed; an Approved request carries decision "approved" and a
\* decision date; a Denied or Appealed request carries decision "denied" and a
\* decision date; a decision date, once set, is never unset.
C39_UndecidedStatuses == {"Submitted", "UnderReview", "PeerToPeerScheduled"}

C39_DecisionMatchesStatus ==
  /\ [](\A id \in DOMAIN AuthRequest :
          LET req == AuthRequest[id] IN
          /\ req.status = "Approved" =>
               req.decision = Some("approved") /\ IsSome(req.decision_date)
          /\ req.status \in {"Denied", "Appealed"} =>
               req.decision = Some("denied") /\ IsSome(req.decision_date)
          /\ req.decision = None =>
               req.status \in C39_UndecidedStatuses /\ req.decision_date = None)
  /\ [][/\ \A id \in DOMAIN AuthRequest' \ DOMAIN AuthRequest :
             AuthRequest'[id].decision = None
        /\ \A id \in DOMAIN AuthRequest :
             LET req == AuthRequest[id]
                 after == AuthRequest'[id] IN
             /\ IsSome(req.decision_date) => IsSome(after.decision_date)
             /\ IsSome(req.decision) => IsSome(after.decision)
             /\ (last'.op = "review" /\ last'.id = id /\ last'.result = "Ok") =>
                  IsSome(after.decision)
             /\ ~(last'.op = "review" /\ last'.id = id /\ last'.result = "Ok") =>
                  /\ after.decision = req.decision
                  /\ after.decision_date = req.decision_date]_vars

\* A denial stamped after the clock advanced.
C39_Witness ==
  /\ last.op = "review" /\ last.result = "Ok"
  /\ AuthRequest[last.id].status = "Denied"
  /\ AuthRequest[last.id].decision = Some("denied")
  /\ AuthRequest[last.id].decision_date = Some(MaxTime)

====
